---- MODULE Spec2Model ----
(***************************************************************************)
(* Conway's Game of Life engine: LifeCell (celulas.rs) and Grid (grid.rs). *)
(* Cell indices are 0-based as in the source; the cell vector is a TLA+    *)
(* sequence, so the cell of index i is cells[i + 1].                       *)
(***************************************************************************)
EXTENDS Integers, Sequences, FiniteSets, TLC

\* ---------------------------------------------------------------- bounds
\* SpecNew builds every grid of 1..MaxDim columns by 1..MaxDim rows.
MaxDim == 4
\* Spec runs every grid of at most MaxCells cells.
MaxCells == 9
\* SpecPar runs every grid of at most MaxParCells cells.
MaxParCells == 6
\* update() is not called once generation has reached MaxGen.
MaxGen == 4
\* SpecPattern runs every grid of 5..MaxPatternDim columns and rows.
MaxPatternDim == 11
\* SpecCell runs every grid of up to MaxCallCells cells.
MaxCallCells == 2

\* ------------------------------------------------------ program constants
CELL_SPACING == 1
CELL_SIZE == 5
RED == "RED"
BLACK == "BLACK"

VARIABLES
    x_cells,           \* Grid.x_cells
    y_cells,           \* Grid.y_cells
    generation,        \* Grid.generation
    cells,             \* Grid.cells (cell_grid while Grid::new runs)
    pc,                \* position of the running call, "idle" between calls
    loop_pos,          \* iterations completed by the running x/y loop
    alive_grid,        \* update(): the snapshot collected so far
    done,              \* update(): cells the current parallel pass has processed
    live_probability,  \* randomize(): its argument, in quarters
    draws,             \* randomize(): its rng.gen::<f64>() values so far, in loop order
    ret,               \* value returned by the last completed update()
    lastOp,            \* the call that ran last (or is running)
    pre,               \* cells and generation at entry to that call
    updates,           \* update() calls since new/reset/randomize
    seeded,            \* the pattern make_live() calls have laid on the new grid
    call               \* the last call made on a single cell, with its arguments

vars == <<x_cells, y_cells, generation, cells, pc, loop_pos, alive_grid, done,
          live_probability, draws, ret, lastOp, pre, updates, seeded, call>>

None == "none"
NoGrid == [i \in {} |-> FALSE]
\* no pattern laid, no call made on a single cell
NoPattern == [kind |-> None, x |-> 0, y |-> 0]
NoCall == [op |-> None, idx |-> 0, n |-> 0]

\* The source computes indices in u32/i64 and the generation in u64; every value
\* of the model stays below MaxPatternDim * MaxPatternDim and MaxGen, far from
\* either width, so the arithmetic is exact.

\* ------------------------------------------------------------- LifeCell

LifeCell_new(alive, corners) ==
    [alive            |-> alive,
     rect             |-> IF alive THEN RED ELSE BLACK,
     corners          |-> corners,
     neighbor_indices |-> <<>>,
     current_state    |-> alive,
     next_state       |-> alive,
     alive_color      |-> RED,
     dead_color       |-> BLACK]

set_state_keeps_next(cell, live) ==
    [cell EXCEPT !.alive = live, !.current_state = live]

set_state(cell, live) ==
    [cell EXCEPT !.alive = live, !.current_state = live, !.next_state = live]

\* sets the state and leaves the colour
make_live_keeps_color(cell) ==
    set_state(cell, TRUE)

make_live(cell) ==
    [set_state(cell, TRUE) EXCEPT !.rect = cell.alive_color]

make_dead_color_only(cell) ==
    [cell EXCEPT !.rect = cell.dead_color]

make_dead(cell) ==
    [set_state(cell, FALSE) EXCEPT !.rect = cell.dead_color]

needs_update(cell) ==
    cell.next_state # cell.current_state

get_neighbor_indices(cell) ==
    cell.neighbor_indices

\* stages the next state and makes it the current one at once
prepare_update_sets_current(cell, live_neighbors) ==
    [cell EXCEPT !.next_state = (cell.current_state /\ live_neighbors = 2)
                                    \/ (live_neighbors = 3),
                 !.current_state = (cell.current_state /\ live_neighbors = 2)
                                    \/ (live_neighbors = 3)]

prepare_update_birth_on_two(cell, live_neighbors) ==
    [cell EXCEPT !.next_state = (live_neighbors = 2) \/ (live_neighbors = 3)]

prepare_update(cell, live_neighbors) ==
    IF ~(~cell.current_state /\ live_neighbors < 3)
    THEN [cell EXCEPT !.next_state =
              (cell.current_state /\ live_neighbors = 2) \/ (live_neighbors = 3)]
    ELSE cell

\* commits the opposite of the staged state
LifeCell_update_inverted(cell) ==
    IF needs_update(cell)
    THEN IF cell.next_state THEN make_dead(cell) ELSE make_live(cell)
    ELSE cell

LifeCell_update(cell) ==
    IF needs_update(cell)
    THEN IF cell.next_state THEN make_live(cell) ELSE make_dead(cell)
    ELSE cell

\* ------------------------------------------------------- Grid: topology

\* graphics::rectangle::rectangle_by_corners: [x, y, w, h]
rectangle_by_corners(x0, y0, x1, y1) ==
    LET Min(a, b) == IF a < b THEN a ELSE b
        Abs(a) == IF a < 0 THEN 0 - a ELSE a
    IN  <<Min(x0, x1), Min(y0, y1), Abs(x1 - x0), Abs(y1 - y0)>>

get_neighbor_indices_for_cell_wraps_left(x, y, xc, yc) ==
    LET left_x   == x - 1
        right_x  == x + 1
        top_y    == y - 1
        bottom_y == y + 1
        Push(c, v) == IF c THEN <<v>> ELSE <<>>
    IN  Push(left_x + y * xc > -1, left_x + y * xc)
        \o Push(left_x > -1 /\ top_y > -1, left_x + top_y * xc)
        \o Push(top_y > -1, x + top_y * xc)
        \o Push(right_x < xc /\ top_y > -1, right_x + top_y * xc)
        \o Push(right_x < xc, right_x + y * xc)
        \o Push(right_x < xc /\ bottom_y < yc, right_x + bottom_y * xc)
        \o Push(bottom_y < yc, x + bottom_y * xc)
        \o Push(left_x > -1 /\ bottom_y < yc, left_x + bottom_y * xc)

get_neighbor_indices_for_cell_no_diagonal(x, y, xc, yc) ==
    LET left_x   == x - 1
        right_x  == x + 1
        top_y    == y - 1
        bottom_y == y + 1
        Push(c, v) == IF c THEN <<v>> ELSE <<>>
    IN  Push(left_x > -1, left_x + y * xc)
        \o Push(left_x > -1 /\ top_y > -1, left_x + top_y * xc)
        \o Push(top_y > -1, x + top_y * xc)
        \o Push(right_x < xc /\ top_y > -1, right_x + top_y * xc)
        \o Push(right_x < xc, right_x + y * xc)
        \o Push(right_x < xc /\ bottom_y < yc, right_x + bottom_y * xc)
        \o Push(bottom_y < yc, x + bottom_y * xc)

get_neighbor_indices_for_cell_off_by_one(x, y, xc, yc) ==
    LET left_x   == x - 1
        right_x  == x + 1
        top_y    == y - 1
        bottom_y == y + 1
        Push(c, v) == IF c THEN <<v>> ELSE <<>>
    IN  Push(left_x > -1, left_x + y * xc)
        \o Push(left_x > -1 /\ top_y > -1, left_x + top_y * xc)
        \o Push(top_y > -1, x + top_y * xc)
        \o Push(right_x < xc /\ top_y > -1, right_x + top_y * xc)
        \o Push(right_x < xc, right_x + y * xc)
        \o Push(right_x < xc /\ bottom_y < yc - 1, right_x + bottom_y * xc)
        \o Push(bottom_y < yc, x + bottom_y * xc)
        \o Push(left_x > -1 /\ bottom_y < yc, left_x + bottom_y * xc)

get_neighbor_indices_for_cell(x, y, xc, yc) ==
    LET left_x   == x - 1
        right_x  == x + 1
        top_y    == y - 1
        bottom_y == y + 1
        Push(c, v) == IF c THEN <<v>> ELSE <<>>
    IN  Push(left_x > -1, left_x + y * xc)
        \o Push(left_x > -1 /\ top_y > -1, left_x + top_y * xc)
        \o Push(top_y > -1, x + top_y * xc)
        \o Push(right_x < xc /\ top_y > -1, right_x + top_y * xc)
        \o Push(right_x < xc, right_x + y * xc)
        \o Push(right_x < xc /\ bottom_y < yc, right_x + bottom_y * xc)
        \o Push(bottom_y < yc, x + bottom_y * xc)
        \o Push(left_x > -1 /\ bottom_y < yc, left_x + bottom_y * xc)

\* The nested loops `for x in 0..x_cells { for y in 0..y_cells {...} }`:
\* the coordinates of iteration number k.
LoopX(k, yc) == k \div yc
LoopY(k, yc) == k % yc

\* grid.rs 53-59: one iteration of create_cell_grid's loop
PushCell(cell_grid, x, y) ==
    LET top_left_x     == x * (CELL_SIZE + CELL_SPACING)
        top_left_y     == y * (CELL_SIZE + CELL_SPACING)
        bottom_right_x == top_left_x + CELL_SIZE
        bottom_right_y == top_left_y + CELL_SIZE
        corners == rectangle_by_corners(top_left_x, top_left_y,
                                        bottom_right_x, bottom_right_y)
    IN  Append(cell_grid, LifeCell_new(FALSE, corners))

\* grid.rs 75-76: one iteration of set_neighbors' loop
AssignNeighbors(cell_grid, x, y, xc, yc) ==
    [cell_grid EXCEPT ![(x + y * xc) + 1].neighbor_indices =
        get_neighbor_indices_for_cell(x, y, xc, yc)]

\* Always true of a vector. A loop tests it on the vector it has built so far, so
\* that TLC evaluates the vector at every iteration instead of holding a chain
\* of pending iterations as deep as the grid has cells.
Evaluated(cell_grid) == Len(cell_grid) >= 0

RECURSIVE PushFrom(_, _, _, _)
PushFrom(cell_grid, k, xc, yc) ==
    IF Evaluated(cell_grid) /\ k >= xc * yc THEN cell_grid
    ELSE PushFrom(PushCell(cell_grid, LoopX(k, yc), LoopY(k, yc)), k + 1, xc, yc)

RECURSIVE SetNeighborsFrom(_, _, _, _)
SetNeighborsFrom(cell_grid, k, xc, yc) ==
    IF Evaluated(cell_grid) /\ k >= xc * yc THEN cell_grid
    ELSE SetNeighborsFrom(
             AssignNeighbors(cell_grid, LoopX(k, yc), LoopY(k, yc), xc, yc),
             k + 1, xc, yc)

set_neighbors(xc, yc, cell_grid) == SetNeighborsFrom(cell_grid, 0, xc, yc)

create_cell_grid(xc, yc) == set_neighbors(xc, yc, PushFrom(<<>>, 0, xc, yc))

\* ------------------------------------------------------ Grid: operations

CellIndices(cell_grid) == 0 .. (Len(cell_grid) - 1)

\* grid.rs 139: cells.par_iter().map(|cell| cell.alive).collect()
SnapshotOf(cell_grid) == [i \in CellIndices(cell_grid) |-> cell_grid[i + 1].alive]

\* counts every neighbour, live or dead
live_neighbors_ignores_snapshot(cell, snapshot) ==
    Len(get_neighbor_indices(cell)) % 256

\* grid.rs 143: neighbours whose snapshot entry is true, counted by position
live_neighbors(cell, snapshot) ==
    LET neighbor_idxs == get_neighbor_indices(cell)
    IN  Cardinality({n \in 1 .. Len(neighbor_idxs) : snapshot[neighbor_idxs[n]]}) % 256

\* a naive single pass: reads the neighbours' live flags and commits at once
StageCell_in_place(cell_grid, snapshot, idx) ==
    LifeCell_update(
        prepare_update(cell_grid[idx + 1],
                       live_neighbors(cell_grid[idx + 1], SnapshotOf(cell_grid))))

\* grid.rs 141-145: the closure of the second pass, applied to cell idx
StageCell(cell_grid, snapshot, idx) ==
    prepare_update(cell_grid[idx + 1], live_neighbors(cell_grid[idx + 1], snapshot))

\* commits births only
CommitCell_no_deaths(cell_grid, idx) ==
    IF cell_grid[idx + 1].next_state THEN LifeCell_update(cell_grid[idx + 1])
    ELSE cell_grid[idx + 1]

\* grid.rs 147-149: the closure of the third pass, applied to cell idx
CommitCell(cell_grid, idx) ==
    LifeCell_update(cell_grid[idx + 1])

RECURSIVE StageFrom(_, _, _)
StageFrom(cell_grid, snapshot, idx) ==
    IF idx >= Len(cell_grid) THEN cell_grid
    ELSE StageFrom([cell_grid EXCEPT ![idx + 1] = StageCell(cell_grid, snapshot, idx)],
                   snapshot, idx + 1)

RECURSIVE CommitFrom(_, _)
CommitFrom(cell_grid, idx) ==
    IF idx >= Len(cell_grid) THEN cell_grid
    ELSE CommitFrom([cell_grid EXCEPT ![idx + 1] = CommitCell(cell_grid, idx)], idx + 1)

\* grid.rs 139-149: the three passes of update(), each run to completion in turn
Grid_update_cells(cell_grid) ==
    CommitFrom(StageFrom(cell_grid, SnapshotOf(cell_grid), 0), 0)

\* grid.rs 151
NextGeneration_stuck(gen) == gen

NextGeneration(gen) == gen + 1

\* clears a cell by putting a new dead cell in its place
MakeDeadAt_recreates(cell_grid, x, y, xc) ==
    [cell_grid EXCEPT ![(x + y * xc) + 1] = LifeCell_new(FALSE, @.corners)]

\* grid.rs 159: one iteration of reset's loop
MakeDeadAt(cell_grid, x, y, xc) ==
    [cell_grid EXCEPT ![(x + y * xc) + 1] = make_dead(@)]

RECURSIVE ResetFrom(_, _, _, _)
ResetFrom(cell_grid, k, xc, yc) ==
    IF Evaluated(cell_grid) /\ k >= xc * yc THEN cell_grid
    ELSE ResetFrom(MakeDeadAt(cell_grid, LoopX(k, yc), LoopY(k, yc), xc), k + 1, xc, yc)

\* grid.rs 157-161
Grid_reset_cells(cell_grid, xc, yc) == ResetFrom(cell_grid, 0, xc, yc)

\* grid.rs 176-178: one iteration of randomize's loop, with the draw it made
RandomizeAt_strict(cell_grid, x, y, xc, d, p) ==
    IF d < p
    THEN [cell_grid EXCEPT ![(x + y * xc) + 1] = make_live(@)]
    ELSE cell_grid

RandomizeAt(cell_grid, x, y, xc, d, p) ==
    IF d <= p
    THEN [cell_grid EXCEPT ![(x + y * xc) + 1] = make_live(@)]
    ELSE cell_grid

\* Probabilities and draws are counted in quarters. Only the order of a draw and
\* the probability decides `<=`; these values give a draw equal to, below and
\* above the probability, and a draw above a probability that is not 0.0.
\* live_probability: 0.0 ..= 1.0, here 0.0, 0.5 and 1.0
Probabilities == {0, 2, 4}
\* rng.gen::<f64>(): uniform in [0, 1), here 0.0 and 0.75
Draws == {0, 3}
\* live_probability = 1.0
CertainlyLive == CHOOSE p \in Probabilities : \A q \in Probabilities : q <= p

\* ------------------------------------------------------------ Grid::new

\* The state when Grid::new(xc, yc) has returned.
GridNew(xc, yc) ==
    /\ x_cells = xc
    /\ y_cells = yc
    /\ generation = 0
    /\ cells = create_cell_grid(xc, yc)
    /\ pc = "idle"
    /\ loop_pos = 0
    /\ alive_grid = NoGrid
    /\ done = {}
    /\ live_probability = None
    /\ draws = <<>>
    /\ ret = None
    /\ lastOp = "new"
    /\ pre = None
    /\ updates = 0
    /\ seeded = NoPattern
    /\ call = NoCall

Init ==
    \E xc \in 1 .. MaxCells, yc \in 1 .. MaxCells :
        xc * yc <= MaxCells /\ GridNew(xc, yc)

InitPar ==
    \E xc \in 1 .. MaxParCells, yc \in 1 .. MaxParCells :
        xc * yc <= MaxParCells /\ GridNew(xc, yc)

\* Entry to Grid::new(xc, yc): create_cell_grid starts with an empty vector.
InitNew ==
    /\ x_cells \in 1 .. MaxDim
    /\ y_cells \in 1 .. MaxDim
    /\ generation = 0
    /\ cells = <<>>
    /\ pc = "create_cell_grid"
    /\ loop_pos = 0
    /\ alive_grid = NoGrid
    /\ done = {}
    /\ live_probability = None
    /\ draws = <<>>
    /\ ret = None
    /\ lastOp = "new"
    /\ pre = None
    /\ updates = 0
    /\ seeded = NoPattern
    /\ call = NoCall

create_cell_grid_push ==
    /\ pc = "create_cell_grid"
    /\ loop_pos < x_cells * y_cells
    /\ cells' = PushCell(cells, LoopX(loop_pos, y_cells), LoopY(loop_pos, y_cells))
    /\ loop_pos' = loop_pos + 1
    /\ UNCHANGED <<x_cells, y_cells, generation, pc, alive_grid, done,
                   live_probability, draws, ret, lastOp, pre, updates>>
    /\ UNCHANGED <<seeded, call>>

create_cell_grid_call_set_neighbors ==
    /\ pc = "create_cell_grid"
    /\ loop_pos = x_cells * y_cells
    /\ pc' = "set_neighbors"
    /\ loop_pos' = 0
    /\ UNCHANGED <<x_cells, y_cells, generation, cells, alive_grid, done,
                   live_probability, draws, ret, lastOp, pre, updates>>
    /\ UNCHANGED <<seeded, call>>

set_neighbors_assign ==
    /\ pc = "set_neighbors"
    /\ loop_pos < x_cells * y_cells
    /\ cells' = AssignNeighbors(cells, LoopX(loop_pos, y_cells),
                                LoopY(loop_pos, y_cells), x_cells, y_cells)
    /\ loop_pos' = loop_pos + 1
    /\ UNCHANGED <<x_cells, y_cells, generation, pc, alive_grid, done,
                   live_probability, draws, ret, lastOp, pre, updates>>
    /\ UNCHANGED <<seeded, call>>

Grid_new_return ==
    /\ pc = "set_neighbors"
    /\ loop_pos = x_cells * y_cells
    /\ pc' = "idle"
    /\ loop_pos' = 0
    /\ UNCHANGED <<x_cells, y_cells, generation, cells, alive_grid, done,
                   live_probability, draws, ret, lastOp, pre, updates>>
    /\ UNCHANGED <<seeded, call>>

NextNew ==
    \/ create_cell_grid_push
    \/ create_cell_grid_call_set_neighbors
    \/ set_neighbors_assign
    \/ Grid_new_return

SpecNew == InitNew /\ [][NextNew]_vars

\* --------------------------------------------- update / reset / randomize

Entry == [cells |-> cells, generation |-> generation]

\* Grid::update as one step (the caller sees nothing in between)
Grid_update ==
    /\ pc = "idle"
    /\ generation < MaxGen
    /\ cells' = Grid_update_cells(cells)
    /\ generation' = NextGeneration(generation)
    /\ ret' = generation'
    /\ lastOp' = "update"
    /\ pre' = Entry
    /\ updates' = updates + 1
    /\ live_probability' = None
    /\ draws' = <<>>
    /\ UNCHANGED <<x_cells, y_cells, pc, loop_pos, alive_grid, done>>
    /\ UNCHANGED <<seeded, call>>

Grid_reset ==
    /\ pc = "idle"
    /\ cells' = Grid_reset_cells(cells, x_cells, y_cells)
    /\ generation' = 0
    /\ ret' = None
    /\ lastOp' = "reset"
    /\ pre' = Entry
    /\ updates' = 0
    /\ live_probability' = None
    /\ draws' = <<>>
    /\ UNCHANGED <<x_cells, y_cells, pc, loop_pos, alive_grid, done>>
    /\ seeded' = NoPattern
    /\ call' = NoCall

\* grid.rs 170-173: randomize(p) up to its loop: reset(), then the rng
Grid_randomize_call(p) ==
    /\ pc = "idle"
    /\ cells' = Grid_reset_cells(cells, x_cells, y_cells)
    /\ generation' = 0
    /\ pc' = "randomize"
    /\ loop_pos' = 0
    /\ live_probability' = p
    /\ draws' = <<>>
    /\ ret' = None
    /\ lastOp' = "randomize"
    /\ pre' = None
    /\ updates' = 0
    /\ UNCHANGED <<x_cells, y_cells, alive_grid, done>>
    /\ seeded' = NoPattern
    /\ call' = NoCall

\* grid.rs 174-180: one iteration of the loop; the call returns after the last
Grid_randomize_draw(d) ==
    /\ pc = "randomize"
    /\ loop_pos < x_cells * y_cells
    /\ draws' = Append(draws, d)
    /\ cells' = RandomizeAt(cells, LoopX(loop_pos, y_cells), LoopY(loop_pos, y_cells),
                            x_cells, d, live_probability)
    /\ IF loop_pos + 1 = x_cells * y_cells
       THEN pc' = "idle" /\ loop_pos' = 0
       ELSE pc' = pc /\ loop_pos' = loop_pos + 1
    /\ UNCHANGED <<x_cells, y_cells, generation, alive_grid, done,
                   live_probability, ret, lastOp, pre, updates>>
    /\ UNCHANGED <<seeded, call>>

Next ==
    \/ Grid_update
    \/ Grid_reset
    \/ \E p \in Probabilities : Grid_randomize_call(p)
    \/ \E d \in Draws : Grid_randomize_draw(d)

Spec == Init /\ [][Next]_vars

\* ------------------------------------- update(), one worker step at a time
\* Each of the three rayon passes hands the cells to workers in any order and
\* returns when every cell has been processed.

AllCells == CellIndices(cells)

update_call ==
    /\ pc = "idle"
    /\ generation < MaxGen
    /\ pc' = "snapshot"
    /\ alive_grid' = NoGrid
    /\ done' = {}
    /\ ret' = None
    /\ lastOp' = "update"
    /\ pre' = Entry
    /\ live_probability' = None
    /\ draws' = <<>>
    /\ UNCHANGED <<x_cells, y_cells, generation, cells, loop_pos, updates>>
    /\ UNCHANGED <<seeded, call>>

\* grid.rs 139, one cell
snapshot_cell(idx) ==
    /\ pc = "snapshot"
    /\ idx \in AllCells \ done
    /\ alive_grid' = [i \in done \cup {idx} |->
                        IF i = idx THEN cells[idx + 1].alive ELSE alive_grid[i]]
    /\ done' = done \cup {idx}
    /\ UNCHANGED <<x_cells, y_cells, generation, cells, pc, loop_pos,
                   live_probability, draws, ret, lastOp, pre, updates>>
    /\ UNCHANGED <<seeded, call>>

\* grid.rs 139: collect() returns
snapshot_join ==
    /\ pc = "snapshot"
    /\ done = AllCells
    /\ pc' = "stage"
    /\ done' = {}
    /\ UNCHANGED <<x_cells, y_cells, generation, cells, loop_pos, alive_grid,
                   live_probability, draws, ret, lastOp, pre, updates>>
    /\ UNCHANGED <<seeded, call>>

\* grid.rs 141-145, one cell
stage_cell(idx) ==
    /\ pc = "stage"
    /\ idx \in AllCells \ done
    /\ cells' = [cells EXCEPT ![idx + 1] = StageCell(cells, alive_grid, idx)]
    /\ done' = done \cup {idx}
    /\ UNCHANGED <<x_cells, y_cells, generation, pc, loop_pos, alive_grid,
                   live_probability, draws, ret, lastOp, pre, updates>>
    /\ UNCHANGED <<seeded, call>>

\* a second pass that returns as soon as one cell has been staged
stage_join_early ==
    /\ pc = "stage"
    /\ done # {}
    /\ pc' = "commit"
    /\ done' = {}
    /\ UNCHANGED <<x_cells, y_cells, generation, cells, loop_pos, alive_grid,
                   live_probability, draws, ret, lastOp, pre, updates>>
    /\ UNCHANGED <<seeded, call>>

\* grid.rs 145: for_each() returns
stage_join ==
    /\ pc = "stage"
    /\ done = AllCells
    /\ pc' = "commit"
    /\ done' = {}
    /\ UNCHANGED <<x_cells, y_cells, generation, cells, loop_pos, alive_grid,
                   live_probability, draws, ret, lastOp, pre, updates>>
    /\ UNCHANGED <<seeded, call>>

\* grid.rs 147-149, one cell
commit_cell(idx) ==
    /\ pc = "commit"
    /\ idx \in AllCells \ done
    /\ cells' = [cells EXCEPT ![idx + 1] = CommitCell(cells, idx)]
    /\ done' = done \cup {idx}
    /\ UNCHANGED <<x_cells, y_cells, generation, pc, loop_pos, alive_grid,
                   live_probability, draws, ret, lastOp, pre, updates>>
    /\ UNCHANGED <<seeded, call>>

\* grid.rs 149-152: for_each() returns, the counter is advanced and returned
update_return ==
    /\ pc = "commit"
    /\ done = AllCells
    /\ generation' = NextGeneration(generation)
    /\ ret' = generation'
    /\ updates' = updates + 1
    /\ pc' = "idle"
    /\ alive_grid' = NoGrid
    /\ done' = {}
    /\ UNCHANGED <<x_cells, y_cells, cells, loop_pos,
                   live_probability, draws, lastOp, pre>>
    /\ UNCHANGED <<seeded, call>>

NextPar ==
    \/ update_call
    \/ \E idx \in AllCells : snapshot_cell(idx)
    \/ snapshot_join
    \/ \E idx \in AllCells : stage_cell(idx)
    \/ stage_join
    \/ \E idx \in AllCells : commit_cell(idx)
    \/ update_return
    \/ Grid_reset
    \/ \E p \in Probabilities : Grid_randomize_call(p)
    \/ \E d \in Draws : Grid_randomize_draw(d)

SpecPar == InitPar /\ [][NextPar]_vars

\* --------------------------------------- patterns laid on a new grid
\* A caller inside the crate lays a pattern by calling make_live() on cells of
\* a grid Grid::new has just returned (cells is pub(crate), make_live is pub).

\* the index that stands for position (x, y): grid.rs 76, 159, 177
IndexOf(x, y) == x + y * x_cells

\* three cells in a row, centred on (cx, cy)
BlinkerCells(cx, cy) ==
    {IndexOf(cx - 1, cy), IndexOf(cx, cy), IndexOf(cx + 1, cy)}

\* the five-cell glider whose bounding box has its top left corner at (ox, oy)
GliderCells(ox, oy) ==
    {IndexOf(ox + 1, oy), IndexOf(ox + 2, oy + 1),
     IndexOf(ox, oy + 2), IndexOf(ox + 1, oy + 2), IndexOf(ox + 2, oy + 2)}

PatternCells(kind, x, y) ==
    IF kind = "blinker" THEN BlinkerCells(x, y) ELSE GliderCells(x, y)

\* a blinker is centred (either middle column or row of an even size); a glider
\* keeps one dead row and column between itself and every edge, also after it
\* has moved by (1, 1)
PatternFits(kind, x, y) ==
    IF kind = "blinker"
    THEN /\ x \in {(x_cells - 1) \div 2, x_cells \div 2}
         /\ y \in {(y_cells - 1) \div 2, y_cells \div 2}
    ELSE /\ x \in 1 .. (x_cells - 5)
         /\ y \in 1 .. (y_cells - 5)

\* celulas.rs 61-64 on every cell of the set
MakeLiveAll(cell_grid, S) ==
    [i \in 1 .. Len(cell_grid) |->
        IF (i - 1) \in S THEN make_live(cell_grid[i]) ELSE cell_grid[i]]

lay_pattern(kind, x, y) ==
    /\ pc = "idle"
    /\ lastOp = "new"
    /\ PatternFits(kind, x, y)
    /\ cells' = MakeLiveAll(cells, PatternCells(kind, x, y))
    /\ seeded' = [kind |-> kind, x |-> x, y |-> y]
    /\ lastOp' = "make_live"
    /\ UNCHANGED <<x_cells, y_cells, generation, pc, loop_pos, alive_grid, done,
                   live_probability, draws, ret, pre, updates, call>>

InitPattern ==
    \E xc \in 5 .. MaxPatternDim, yc \in 5 .. MaxPatternDim : GridNew(xc, yc)

NextPattern ==
    \/ \E kind \in {"blinker", "glider"}, x \in 0 .. (x_cells - 1),
          y \in 0 .. (y_cells - 1) : lay_pattern(kind, x, y)
    \/ Grid_update

SpecPattern == InitPattern /\ [][NextPattern]_vars

\* --------------------------------------- calls on a single cell
\* The methods of LifeCell, called one at a time on a cell of the grid in any
\* order, as code inside the crate may call them.

\* live_neighbors: u8, at most the eight neighbours of grid.rs 91-132
NeighborCounts == 0 .. 8

CellCall(op, idx, n, cell) ==
    /\ pc = "idle"
    /\ idx \in AllCells
    /\ cells' = [cells EXCEPT ![idx + 1] = cell]
    /\ call' = [op |-> op, idx |-> idx, n |-> n]
    /\ pre' = Entry
    /\ lastOp' = "cell"
    /\ ret' = None
    /\ UNCHANGED <<x_cells, y_cells, generation, pc, loop_pos, alive_grid, done,
                   live_probability, draws, updates, seeded>>

\* celulas.rs 61-64
cell_make_live(idx) == CellCall("make_live", idx, 0, make_live(cells[idx + 1]))

\* celulas.rs 67-70
cell_make_dead(idx) == CellCall("make_dead", idx, 0, make_dead(cells[idx + 1]))

\* celulas.rs 92-97
cell_prepare_update(idx, n) ==
    CellCall("prepare_update", idx, n, prepare_update(cells[idx + 1], n))

\* celulas.rs 100-108
cell_update(idx) == CellCall("update", idx, 0, LifeCell_update(cells[idx + 1]))

InitCell ==
    \E xc \in 1 .. MaxCallCells, yc \in 1 .. MaxCallCells :
        xc * yc <= MaxCallCells /\ GridNew(xc, yc)

NextCell ==
    \/ \E idx \in AllCells : cell_make_live(idx)
    \/ \E idx \in AllCells : cell_make_dead(idx)
    \/ \E idx \in AllCells, n \in NeighborCounts : cell_prepare_update(idx, n)
    \/ \E idx \in AllCells : cell_update(idx)

SpecCell == InitCell /\ [][NextCell]_vars

\* ================================================================ claims

\* Grid::new has returned and no call is running.
Idle == pc = "idle"

Alive(i) == cells[i + 1].alive
WasAlive(i) == pre.cells[i + 1].alive
Neighbors(i) == cells[i + 1].neighbor_indices
InList(b, a) == \E n \in 1 .. Len(Neighbors(a)) : Neighbors(a)[n] = b

\* Conway's rule
LifeRule(was_alive, n) == IF was_alive THEN n \in {2, 3} ELSE n = 3

\* cells of i's neighbor list, counted by position, that were alive at entry
AliveNeighborsBefore(i) ==
    LET nl == pre.cells[i + 1].neighbor_indices
    IN  Cardinality({n \in 1 .. Len(nl) : pre.cells[nl[n] + 1].alive})

\* C1: after a call of update() every cell is alive exactly when Conway's rule
\* says so for its liveness and its count of live listed neighbours at entry to
\* the call: a live cell survives iff the count is 2 or 3, a dead cell is born
\* iff it is 3; nothing written during the call enters the result.
C1_UpdateAppliesLifeRule ==
    (Idle /\ lastOp = "update") =>
        \A i \in AllCells : Alive(i) = LifeRule(WasAlive(i), AliveNeighborsBefore(i))

\* an update in which a cell was born, one survived, one died with fewer than
\* two live neighbours and one died with all eight of its neighbours alive
C1_Witness ==
    /\ Idle /\ lastOp = "update"
    /\ \E i \in AllCells : ~WasAlive(i) /\ Alive(i)
    /\ \E i \in AllCells : WasAlive(i) /\ Alive(i)
    /\ \E i \in AllCells : WasAlive(i) /\ ~Alive(i) /\ AliveNeighborsBefore(i) < 2
    /\ \E i \in AllCells : WasAlive(i) /\ ~Alive(i) /\ AliveNeighborsBefore(i) > 3
    /\ \E i \in AllCells : ~WasAlive(i) /\ ~Alive(i) /\ AliveNeighborsBefore(i) = 2

\* C2: whenever no call is running (after Grid::new and after every completed
\* update(), reset() or randomize(p)) every cell has
\* alive = current_state = next_state.
C2_NoPendingTransition ==
    Idle => \A i \in AllCells :
                /\ cells[i + 1].alive = cells[i + 1].current_state
                /\ cells[i + 1].current_state = cells[i + 1].next_state

\* an update that has just flipped a cell in each direction
C2_Witness ==
    /\ Idle /\ lastOp = "update"
    /\ \E i \in AllCells : WasAlive(i) /\ ~Alive(i)
    /\ \E i \in AllCells : ~WasAlive(i) /\ Alive(i)

\* C3: generation is 0 after Grid::new, reset() and randomize(p); update()
\* raises it by exactly 1 and returns the new value; so it always equals the
\* number of update() calls since construction or the last reset()/randomize().
C3_GenerationCountsUpdates ==
    Idle =>
        /\ generation = updates
        /\ lastOp = "update" => (generation = pre.generation + 1 /\ ret = generation)
        /\ lastOp \in {"new", "reset", "randomize"} => generation = 0

\* the second update() in a row has returned 2
C3_Witness ==
    Idle /\ lastOp = "update" /\ pre.generation = 1 /\ ret = 2 /\ updates = 2

\* the position the cell of index i stands for: i = x + y * x_cells
XOf(i) == i % x_cells
YOf(i) == i \div x_cells
OnEdge(i) == XOf(i) \in {0, x_cells - 1} \/ YOf(i) \in {0, y_cells - 1}
IsCorner(i) == XOf(i) \in {0, x_cells - 1} /\ YOf(i) \in {0, y_cells - 1}

NeighborCountsByPosition ==
    \A i \in AllCells :
        /\ IsCorner(i) => Len(Neighbors(i)) = 3
        /\ (OnEdge(i) /\ ~IsCorner(i)) => Len(Neighbors(i)) = 5
        /\ ~OnEdge(i) => Len(Neighbors(i)) = 8
        /\ Len(Neighbors(i)) \in 3 .. 8

\* C4 as stated: for every grid with W >= 1 and H >= 1 a corner cell has 3
\* neighbours, a non-corner edge cell 5 and an interior cell 8, so every list
\* has 3 to 8 entries.
C4_NeighborCountsEveryGrid ==
    Idle => NeighborCountsByPosition

\* C4, amended: for every grid with W >= 2 and H >= 2 a corner cell has 3
\* neighbours, a non-corner edge cell 5 and an interior cell 8, so every list
\* has 3 to 8 entries.
C4_NeighborCountsFromTwoByTwo ==
    (Idle /\ x_cells >= 2 /\ y_cells >= 2) => NeighborCountsByPosition

\* a 4 x 3 grid, which has corner, edge and interior cells
C4_Witness ==
    /\ Idle /\ x_cells = 4 /\ y_cells = 3
    /\ Len(Neighbors(0)) = 3 /\ Len(Neighbors(1)) = 5 /\ Len(Neighbors(5)) = 8

Abs(v) == IF v < 0 THEN 0 - v ELSE v

\* indices of the positions of the grid at Chebyshev distance 1 from (x, y)
AdjacentIndices(x, y) ==
    {xx + yy * x_cells : <<xx, yy>> \in
        {q \in (0 .. x_cells - 1) \X (0 .. y_cells - 1) :
            /\ Abs(q[1] - x) <= 1
            /\ Abs(q[2] - y) <= 1
            /\ q # <<x, y>>}}

\* C5: after Grid::new(W, H) the list of the cell at x + y*W holds exactly the
\* indices of the in-grid positions at Chebyshev distance 1 from (x, y), each
\* once, never its own index, without wraparound; every entry is a valid index
\* into the W*H cells.
C5_NeighborListIsAdjacency ==
    Idle =>
        /\ Len(cells) = x_cells * y_cells
        /\ \A x \in 0 .. x_cells - 1, y \in 0 .. y_cells - 1 :
            LET nl == Neighbors(x + y * x_cells)
            IN  /\ {nl[n] : n \in 1 .. Len(nl)} = AdjacentIndices(x, y)
                /\ Len(nl) = Cardinality(AdjacentIndices(x, y))
                /\ \A n \in 1 .. Len(nl) : nl[n] # x + y * x_cells
                /\ \A n \in 1 .. Len(nl) : nl[n] \in 0 .. (Len(cells) - 1)

\* a 2 x 3 grid: the first cell of the second row lists both cells of the first
\* row, its right neighbour and both cells of the third row, not itself
C5_Witness ==
    /\ Idle /\ x_cells = 2 /\ y_cells = 3
    /\ Neighbors(2) = <<0, 1, 3, 5, 4>>
    /\ Neighbors(0) = <<1, 3, 2>>

\* C6: the neighbour relation Grid::new builds is symmetric.
C6_NeighborsSymmetric ==
    Idle => \A a \in AllCells, b \in AllCells : InList(b, a) <=> InList(a, b)

\* a 3 x 4 grid: cells 0 and 4 list each other, cells 2 and 3 (the end of one
\* row and the start of the next) do not
C6_Witness ==
    /\ Idle /\ x_cells = 3 /\ y_cells = 4
    /\ InList(4, 0) /\ InList(0, 4)
    /\ ~InList(3, 2) /\ ~InList(2, 3)

\* C7: after reset(), from any state, every cell is dead and generation is 0,
\* and a further reset() leaves the cells and the generation as they are.
C7_ResetClearsAndIsIdempotent ==
    (Idle /\ lastOp = "reset") =>
        /\ \A i \in AllCells : ~Alive(i)
        /\ generation = 0
        /\ Grid_reset_cells(cells, x_cells, y_cells) = cells

\* reset() called on a grid with live cells after at least one update()
C7_Witness ==
    /\ Idle /\ lastOp = "reset"
    /\ pre.generation > 0
    /\ \E i \in AllCells : WasAlive(i)

\* C8 as stated: after randomize(0.0) no cell is alive, whatever the draws.
C8_RandomizeZeroAllDead ==
    (Idle /\ lastOp = "randomize" /\ live_probability = 0) =>
        \A i \in AllCells : ~Alive(i)

\* the cell randomize()'s k-th iteration treats (k from 0)
LoopIndex(k) == LoopX(k, y_cells) + LoopY(k, y_cells) * x_cells

\* C9: after randomize(1.0) every cell is alive, whatever the draws; after any
\* randomize(p) a cell is alive iff its own draw was <= p, whatever it was
\* before the call.
C9_RandomizeFollowsDraws ==
    (Idle /\ lastOp = "randomize") =>
        /\ Len(draws) = Len(cells)
        /\ \A k \in 0 .. (Len(cells) - 1) :
               Alive(LoopIndex(k)) <=> (draws[k + 1] <= live_probability)
        /\ live_probability = CertainlyLive => \A i \in AllCells : Alive(i)

\* randomize(0.5) on a 3 x 2 grid whose draws were 0.75, 0.0, 0.75, 0.75, 0.75,
\* 0.75: only the second cell drawn, the one at (0, 1), is alive
C9_Witness ==
    /\ Idle /\ lastOp = "randomize" /\ x_cells = 3 /\ y_cells = 2
    /\ live_probability = 2
    /\ draws = <<3, 0, 3, 3, 3, 3>>
    /\ Alive(3)
    /\ \A i \in AllCells \ {3} : ~Alive(i)

\* C10: update() is deterministic: whatever order the workers take the cells in
\* within each of the three passes, the cells end as the passes run in index
\* order leave them, and generation is one more than at entry.
C10_UpdateIsDeterministic ==
    (Idle /\ lastOp = "update") =>
        /\ cells = Grid_update_cells(pre.cells)
        /\ generation = pre.generation + 1
        /\ ret = generation

\* an update of a 3 x 2 grid in which a cell died and a neighbour of it was born
C10_Witness ==
    /\ Idle /\ lastOp = "update" /\ x_cells = 3 /\ y_cells = 2
    /\ \E i \in AllCells, j \in AllCells :
        /\ InList(j, i)
        /\ WasAlive(i) /\ ~Alive(i)
        /\ ~WasAlive(j) /\ Alive(j)

LiveCells == {i \in AllCells : Alive(i)}

\* C11: on a grid of at least 5 x 5 whose only live cells are three horizontally
\* adjacent cells centred in the grid, one update() leaves exactly the vertical
\* triple through the same centre alive, and two leave the original cells alive
\* with generation 2 higher (positions are those of index = x + y * width).
C11_BlinkerOscillates ==
    (Idle /\ seeded.kind = "blinker"
          /\ x_cells >= 5 /\ y_cells >= 5) =>
        /\ updates = 0 => LiveCells = BlinkerCells(seeded.x, seeded.y)
        /\ updates = 1 =>
              LiveCells = {IndexOf(seeded.x, seeded.y - 1),
                           IndexOf(seeded.x, seeded.y),
                           IndexOf(seeded.x, seeded.y + 1)}
        /\ updates = 2 =>
              /\ LiveCells = BlinkerCells(seeded.x, seeded.y)
              /\ generation = 2

\* a blinker on a 5 x 6 grid after its second update()
C11_Witness ==
    /\ Idle /\ seeded.kind = "blinker"
    /\ x_cells = 5 /\ y_cells = 6
    /\ lastOp = "update" /\ updates = 2
    /\ LiveCells = {IndexOf(1, seeded.y), IndexOf(2, seeded.y), IndexOf(3, seeded.y)}

\* C12: on a grid of at least 10 x 10 whose only live cells are a glider away
\* from the edges, four update() calls leave exactly the glider moved by (1, 1)
\* alive (positions are those of index = x + y * width).
C12_GliderMoves ==
    (Idle /\ seeded.kind = "glider"
          /\ x_cells >= 10 /\ y_cells >= 10) =>
        /\ updates = 0 => LiveCells = GliderCells(seeded.x, seeded.y)
        /\ updates = 4 => LiveCells = GliderCells(seeded.x + 1, seeded.y + 1)

\* a glider on a 10 x 11 grid after its fourth update()
C12_Witness ==
    /\ Idle /\ seeded.kind = "glider"
    /\ x_cells = 10 /\ y_cells = 11
    /\ lastOp = "update" /\ updates = 4
    /\ seeded.x = 2 /\ seeded.y = 3
    /\ LiveCells = GliderCells(3, 4)

\* the loop coordinates (x, y) of create_cell_grid that cell i's rectangle was
\* computed from
CreatedFor(i) ==
    <<cells[i + 1].corners[1] \div (CELL_SIZE + CELL_SPACING),
      cells[i + 1].corners[2] \div (CELL_SIZE + CELL_SPACING)>>

\* C13: after Grid::new(W, H), for every (x, y) in [0, W) x [0, H) the cell
\* stored at index x + y * W, the index set_neighbors uses for (x, y), is the
\* cell create_cell_grid created for column x and row y.
C13_IndexHoldsCellCreatedFor ==
    Idle => \A x \in 0 .. (x_cells - 1), y \in 0 .. (y_cells - 1) :
                CreatedFor(IndexOf(x, y)) = <<x, y>>

\* cell i as the second pass leaves it, from the values at entry to update()
StagedAtEntry(i) == StageCell(pre.cells, SnapshotOf(pre.cells), i)

\* C14: inside update() no cell is staged before the snapshot holds every
\* cell's alive value, no cell is committed before every cell is staged, the
\* generation counter moves only after every cell is committed, and the
\* snapshot, once built, stays the alive values at entry.
C14_PhasesSeparatedByBarriers ==
    /\ pc = "snapshot" =>
          /\ cells = pre.cells
          /\ generation = pre.generation
          /\ \A i \in done : alive_grid[i] = WasAlive(i)
    /\ pc = "stage" =>
          /\ alive_grid = SnapshotOf(pre.cells)
          /\ generation = pre.generation
          /\ \A i \in AllCells :
                cells[i + 1] = IF i \in done THEN StagedAtEntry(i) ELSE pre.cells[i + 1]
    /\ pc = "commit" =>
          /\ alive_grid = SnapshotOf(pre.cells)
          /\ generation = pre.generation
          /\ \A i \in AllCells :
                cells[i + 1] = IF i \in done THEN LifeCell_update(StagedAtEntry(i))
                               ELSE StagedAtEntry(i)
    /\ (Idle /\ lastOp = "update") =>
          /\ generation = pre.generation + 1
          /\ \A i \in AllCells : cells[i + 1] = LifeCell_update(StagedAtEntry(i))

\* the third pass of an update of a 3 x 2 grid: one cell committed and changed,
\* another staged to change and not yet committed
C14_Witness ==
    /\ pc = "commit" /\ x_cells = 3 /\ y_cells = 2
    /\ \E i \in done : Alive(i) # WasAlive(i)
    /\ \E i \in AllCells \ done : needs_update(cells[i + 1])

\* the cell the last single-cell call was made on, before and after the call
CalledBefore == pre.cells[call.idx + 1]
CalledAfter == cells[call.idx + 1]

\* C15: whatever calls of make_live, make_dead, prepare_update and update a cell
\* has received, prepare_update(n) with n in 0..8 leaves its next_state equal to
\* Conway's rule on its current_state and n; a dead cell called with n < 3 ends
\* with next_state false.
C15_PrepareUpdateAppliesRule ==
    call.op = "prepare_update" =>
        CalledAfter.next_state = LifeRule(CalledBefore.current_state, call.n)

\* C16: in every reachable state, the states inside update() included, every
\* cell has alive = current_state; the second pass changes neither of them, so
\* during the whole second pass the snapshot equals the cells' alive values.
C16_AliveIsCommittedState ==
    /\ \A i \in AllCells : cells[i + 1].alive = cells[i + 1].current_state
    /\ pc = "stage" =>
          \A i \in AllCells :
              /\ alive_grid[i] = Alive(i)
              /\ Alive(i) = WasAlive(i)
              /\ cells[i + 1].current_state = pre.cells[i + 1].current_state

\* the second pass of an update of a 2 x 3 grid: a live cell staged to die and a
\* dead cell staged to be born, neither committed
C16_Witness ==
    /\ pc = "stage" /\ x_cells = 2 /\ y_cells = 3
    /\ \E i \in done : Alive(i) /\ ~cells[i + 1].next_state
    /\ \E i \in done : ~Alive(i) /\ cells[i + 1].next_state

\* C17: LifeCell::update() changes a cell only when next_state # current_state,
\* and then sets alive and current_state to next_state and the colour with
\* them; otherwise it leaves the cell as it was. No other cell changes.
C17_UpdateCommitsOnlyPending ==
    call.op = "update" =>
        /\ IF CalledBefore.next_state # CalledBefore.current_state
           THEN /\ CalledAfter.alive = CalledBefore.next_state
                /\ CalledAfter.current_state = CalledBefore.next_state
                /\ CalledAfter.next_state = CalledBefore.next_state
                /\ CalledAfter.rect = IF CalledBefore.next_state
                                      THEN CalledBefore.alive_color
                                      ELSE CalledBefore.dead_color
           ELSE CalledAfter = CalledBefore
        /\ \A i \in AllCells \ {call.idx} : cells[i + 1] = pre.cells[i + 1]

\* update() on the second cell of a two-cell grid, which was dead and staged to
\* live, while the first cell holds a pending transition of its own
C17_Witness ==
    /\ call.op = "update" /\ call.idx = 1 /\ Len(cells) = 2
    /\ ~CalledBefore.current_state /\ CalledBefore.next_state
    /\ CalledAfter.alive /\ CalledAfter.rect = RED
    /\ needs_update(cells[1])

\* the colour App::render draws cell i with (app.rs 32: cell.rect)
DrawnColor(i) == cells[i + 1].rect

\* C18: in every reachable state, after Grid::new and after and inside any
\* sequence of update(), reset() and randomize(p), each cell's colour is RED if
\* its alive flag is true and BLACK otherwise.
C18_ColorMatchesAlive ==
    \A i \in AllCells : DrawnColor(i) = IF Alive(i) THEN RED ELSE BLACK

\* the third pass of an update of a 3 x 2 grid: a cell committed to live is RED
\* and a cell committed to die is BLACK
C18_Witness ==
    /\ pc = "commit" /\ x_cells = 3 /\ y_cells = 2
    /\ \E i \in done : ~WasAlive(i) /\ Alive(i) /\ DrawnColor(i) = RED
    /\ \E i \in done : WasAlive(i) /\ ~Alive(i) /\ DrawnColor(i) = BLACK

\* width, height, and per index the rectangle that identifies the cell stored
\* there and its neighbor list
Topology ==
    [x_cells |-> x_cells,
     y_cells |-> y_cells,
     order   |-> [i \in 1 .. Len(cells) |-> cells[i].corners],
     lists   |-> [i \in 1 .. Len(cells) |-> cells[i].neighbor_indices]]

\* C19: no step of update(), reset() or randomize(p), in any sequence, changes
\* the grid's width or height, the length or order of the cell sequence, or any
\* cell's neighbor index list.
C19_TopologyFixed == [][Topology' = Topology]_vars

\* a 3 x 3 grid after the reset() that followed two updates and cleared live
\* cells: the centre still lists its eight neighbours in the order of Grid::new
C19_Witness ==
    /\ Idle /\ lastOp = "reset" /\ x_cells = 3 /\ y_cells = 3
    /\ pre.generation = 2
    /\ \E i \in AllCells : WasAlive(i)
    /\ Neighbors(4) = <<3, 0, 1, 2, 5, 8, 7, 6>>
    /\ Topology.order[2] = <<0, 6, 5, 5>>

\* the positions cells a and b were created for differ by at most 1 in each
\* coordinate and are not equal
DrawnAdjacent(a, b) ==
    /\ CreatedFor(a) # CreatedFor(b)
    /\ Abs(CreatedFor(a)[1] - CreatedFor(b)[1]) <= 1
    /\ Abs(CreatedFor(a)[2] - CreatedFor(b)[2]) <= 1

\* C20: after Grid::new(W, H), for every W and H, two cells are in each other's
\* neighbor lists exactly when the positions their rectangles were created for
\* are adjacent on the displayed lattice.
C20_DrawnAdjacencyIsListed ==
    Idle => \A a \in AllCells, b \in AllCells :
                (InList(b, a) /\ InList(a, b)) <=> DrawnAdjacent(a, b)

====
